---- MODULE Spec2Model ----
(***************************************************************************)
(* Model of the log-structured key-value store KvStore of                  *)
(* courses/rust/projects/project-2-dummy/src/kv.rs.                        *)
(*                                                                         *)
(* A file is a byte string.  Byte strings (file contents, keys, values)    *)
(* are kept run-length encoded: a sequence of runs [b |-> byte, n |-> k]   *)
(* with k > 0 and no two adjacent runs of the same byte, so that equal     *)
(* byte strings are equal values and a value of 2^20 bytes stays small.    *)
(* Every offset and length below is a byte count, as in the source.        *)
(*                                                                         *)
(* Widths: TLC integers are 32-bit signed; all lengths and timestamps of   *)
(* the model stay far below 2^31, so the u32 casts of the source           *)
(* (k.len() as u32, 16 + ksize + vsize) never wrap within the bounds.      *)
(*                                                                         *)
(* File handles: set writes through KvStore.writer, whose cursor is the    *)
(* variable writer; every other access goes through a handle of readers    *)
(* and first seeks to an absolute offset (get, remove_item) or reads a     *)
(* handle opened at offset 0 (the replay of open), so the cursors of the   *)
(* readers carry no state.  File writes are unbuffered (std::fs::File),    *)
(* so the directory holds every byte of a write_all that has returned.     *)
(* Keys and values are ASCII, so String::from_utf8 and read_to_string      *)
(* never fail on them.                                                     *)
(*                                                                         *)
(* A process can end between two calls (drop) or inside set, between two   *)
(* of its write_all calls (crash_in_set); the next process opens the same  *)
(* directory.  A panic of open ends the process with what open had         *)
(* written so far.                                                         *)
(***************************************************************************)
EXTENDS Integers, Sequences, FiniteSets, TLC

(***************************************************************************)
(* Bounds and inputs                                                       *)
(***************************************************************************)
\* number of set calls (completed or interrupted) in one behaviour
MaxWrites == 2

COMPACTION_THRESHOLD == 1024 * 1024

(***************************************************************************)
(* Byte strings                                                            *)
(***************************************************************************)
Rep(b, n) == IF n <= 0 THEN <<>> ELSE <<[b |-> b, n |-> n]>>

RECURSIVE BLen(_)
BLen(s) == IF s = <<>> THEN 0 ELSE Head(s).n + BLen(Tail(s))

Cat(a, b) ==
    IF a = <<>> THEN b
    ELSE IF b = <<>> THEN a
    ELSE IF a[Len(a)].b = b[1].b
         THEN SubSeq(a, 1, Len(a) - 1)
              \o <<[b |-> b[1].b, n |-> a[Len(a)].n + b[1].n]>>
              \o Tail(b)
         ELSE a \o b

\* the first m bytes of s (all of s when it is shorter)
RECURSIVE Take(_, _)
Take(s, m) ==
    IF m <= 0 \/ s = <<>> THEN <<>>
    ELSE IF Head(s).n <= m
         THEN <<Head(s)>> \o Take(Tail(s), m - Head(s).n)
         ELSE <<[b |-> Head(s).b, n |-> m]>>

\* s without its first m bytes
RECURSIVE Drop(_, _)
Drop(s, m) ==
    IF s = <<>> THEN <<>>
    ELSE IF m <= 0 THEN s
    ELSE IF Head(s).n <= m
         THEN Drop(Tail(s), m - Head(s).n)
         ELSE <<[b |-> Head(s).b, n |-> Head(s).n - m]>> \o Tail(s)

Slice(s, pos, len) == Take(Drop(s, pos), len)

ByteAt(s, i) == Head(Drop(s, i)).b

\* x.to_le_bytes()[..] for a w-byte unsigned integer
RECURSIVE to_le_bytes(_, _)
to_le_bytes(x, w) ==
    IF w = 0 THEN <<>>
    ELSE Cat(Rep(x % 256, 1), to_le_bytes(x \div 256, w - 1))

\* read_u64::<LittleEndian> / read_u32::<LittleEndian> on exactly w bytes
RECURSIVE from_le_bytes(_, _)
from_le_bytes(s, w) ==
    IF w = 0 THEN 0
    ELSE ByteAt(s, 0) + 256 * from_le_bytes(Drop(s, 1), w - 1)

\* variant: the file is in append mode, every write lands at its end
WriteAt_append(f, pos, data) == Cat(f, data)

\* File::write_all at cursor pos: overwrites, extends, zero-fills a gap
WriteAt(f, pos, data) ==
    LET gap == Rep(0, pos - BLen(f))
    IN  Cat(Cat(Cat(Take(f, pos), gap), data), Drop(f, pos + BLen(data)))

(***************************************************************************)
(* Inputs: keys and values are strings, i.e. byte strings                  *)
(***************************************************************************)
Keys == { Rep(97, 1), Rep(98, 2) }                     \* "a", "bb"
EmptyStr == <<>>
BigValue == Rep(122, COMPACTION_THRESHOLD)             \* "zzz...z", 1 MiB
Values == { EmptyStr, Rep(120, 1), BigValue }          \* "", "x", 1 MiB

(***************************************************************************)
(* State                                                                   *)
(***************************************************************************)
VARIABLES
    disk,         \* the store directory: generation n |-> bytes of "<n>.log"
    status,       \* "closed" (no KvStore), "open", "panicked" (open aborted)
    nth,          \* KvStore.nth: generation of the active segment
    writer,       \* cursor of KvStore.writer, the handle set appends with
    readers,      \* KvStore.readers: generations that have a handle
    indexes,      \* KvStore.indexes: key |-> DataIndex
    uncompacted,  \* KvStore.uncompacted
    last,         \* the last call and what it returned
    logical,      \* history: key |-> what the completed calls left for it
    hiGen,        \* history: highest generation any open has assigned
    nwrites       \* history: number of set calls started

vars == <<disk, status, nth, writer, readers, indexes, uncompacted,
          last, logical, hiGen, nwrites>>

store == <<nth, writer, readers, indexes, uncompacted>>

\* what a call returns
Result(tag, kind, val) == [tag |-> tag, kind |-> kind, val |-> val]
KeyNotFound == Result("Err", "KeyNotFound", <<>>)
OkUnit == Result("Ok", "unit", <<>>)
OkNone == Result("Ok", "None", <<>>)
OkSome(s) == Result("Ok", "Some", s)
Panic == Result("Panic", "unwrap", <<>>)
NoResult == Result("-", "-", <<>>)

\* values of the history variable logical
NoValue == [st |-> "NoValue", v |-> <<>>]   \* never set, or removed
Torn == [st |-> "Torn", v |-> <<>>]         \* a crash cut a set of the key
Live(v) == [st |-> "Live", v |-> v]         \* the last completed set wrote v

\* values of the history variable last
Call(op, key, val, ret, info) ==
    [op |-> op, key |-> key, val |-> val, ret |-> ret, info |-> info]

NoIndex == [k \in {} |-> 0]

DataIndex(n, pos, len, timestamp) ==
    [n |-> n, pos |-> pos, len |-> len, timestamp |-> timestamp]

\* BTreeMap::insert
Insert(idx, key, data) ==
    [x \in DOMAIN idx \cup {key} |-> IF x = key THEN data ELSE idx[x]]

\* variant: the entry stays in the map
Delete_keeps(idx, key) == idx

\* BTreeMap::remove
Delete(idx, key) == [x \in DOMAIN idx \ {key} |-> idx[x]]

Max(S) == IF S = {} THEN 0 ELSE CHOOSE x \in S : \A y \in S : y <= x

\* entries.sort_unstable(): the generations in ascending order
RECURSIVE Sorted(_)
Sorted(S) ==
    IF S = {} THEN <<>>
    ELSE LET m == CHOOSE x \in S : \A y \in S : x <= y
         IN  <<m>> \o Sorted(S \ {m})

(***************************************************************************)
(* Record layout  |timestamp u64|ksize u32|vsize u32|key|value|            *)
(***************************************************************************)
HeaderLen == 16

\* the five write_all calls of set, in order
Pieces(unixtime, k, v) ==
    << to_le_bytes(unixtime, 8),
       to_le_bytes(BLen(k), 4),
       to_le_bytes(BLen(v), 4),
       k,
       v >>

RECURSIVE CatFirst(_, _)
CatFirst(ps, m) ==
    IF m = 0 THEN <<>> ELSE Cat(CatFirst(ps, m - 1), ps[m])

\* variant: the value's bytes are left out of the length
RecordLen_novalue(k, v) == HeaderLen + BLen(k)

\* let len = 16 + (k.len() + v.len()) as u32
RecordLen(k, v) == HeaderLen + (BLen(k) + BLen(v))

\* read_exact / read_uNN of w bytes at pos succeeds iff w bytes remain
CanRead(f, pos, w) == BLen(f) - pos >= w

\* read_item(n, f) with the cursor of f at pos
read_item(n, f, pos) ==
    IF ~CanRead(f, pos, 8) THEN [err |-> TRUE]
    ELSE IF ~CanRead(f, pos + 8, 4) THEN [err |-> TRUE]
    ELSE IF ~CanRead(f, pos + 12, 4) THEN [err |-> TRUE]
    ELSE
      LET timestamp == from_le_bytes(Slice(f, pos, 8), 8)
          ksize == from_le_bytes(Slice(f, pos + 8, 4), 4)
          vsize == from_le_bytes(Slice(f, pos + 12, 4), 4)
      IN  IF ~CanRead(f, pos + 16, ksize) THEN [err |-> TRUE]
          ELSE [err |-> FALSE,
                key |-> Slice(f, pos + 16, ksize),
                data |-> DataIndex(n, pos, 16 + ksize + vsize, timestamp),
                \* f.seek(SeekFrom::Current(vsize)) succeeds past the end
                next |-> pos + 16 + ksize + vsize]

\* variant: nothing is written
remove_item_noop(f, pos) == f

\* variant: the seek is left out, the write lands at the start of the file
remove_item_first(f, pos) == WriteAt(f, 0, to_le_bytes(0, 8))

\* remove_item(f, pos): zero the 8-byte timestamp at pos
remove_item(f, pos) == WriteAt(f, pos, to_le_bytes(0, 8))

(***************************************************************************)
(* open: replay of the segments                                            *)
(***************************************************************************)
\* state of the loops of open; sup and skipped are history: the entries
\* that a later record displaced, and the bytes of the records read dead
ReplayInit(d) ==
    [disk |-> d, readers |-> {}, indexes |-> NoIndex, uncompacted |-> 0,
     vec |-> <<>>, panic |-> FALSE, sup |-> {}, skipped |-> 0]

\* variant: a zeroed timestamp is not recognised
IsDeleted_never(data) == FALSE

\* timestamp == 0: the record was deleted
IsDeleted(data) == data.timestamp = 0

\* the body of `loop` for the segment num, its handle f positioned at pos
RECURSIVE ReplayFile(_, _, _)
ReplayFile(num, pos, st) ==
    LET item == read_item(num, st.disk[num], pos)
    IN  IF item.err THEN st
        ELSE IF IsDeleted(item.data)
        THEN ReplayFile(num, item.next,
                 [st EXCEPT !.uncompacted = @ + item.data.len,
                            !.skipped = @ + item.data.len])
        ELSE IF item.key \in DOMAIN st.indexes
        THEN LET v == st.indexes[item.key]
                 ins == [st EXCEPT !.indexes = Insert(@, item.key, item.data),
                                   !.sup = @ \cup {[key |-> item.key,
                                                     old |-> v,
                                                     new |-> item.data]}]
             IN  IF v.n \notin st.readers
                 \* readers.get_mut(&v.n).unwrap() on None
                 THEN [ins EXCEPT !.panic = TRUE]
                 ELSE ReplayFile(num, item.next,
                          [ins EXCEPT !.disk[v.n] = remove_item(@, v.pos),
                                      !.uncompacted = @ + v.len])
        ELSE ReplayFile(num, item.next,
                 [st EXCEPT !.indexes = Insert(@, item.key, item.data)])

\* fs::remove_file
RemoveFile(d, num) == [g \in DOMAIN d \ {num} |-> d[g]]

\* open_file(path, n): create the file when it is absent
open_file(d, n) ==
    IF n \in DOMAIN d THEN d
    ELSE [g \in DOMAIN d \cup {n} |-> IF g = n THEN <<>> ELSE d[g]]

\* variant: the handle is not kept
Register_forgets(rd, num) == rd

\* readers.insert(num, f)
Register(rd, num) == rd \cup {num}

\* variant: no file counts as empty
IsEmpty_never(f) == FALSE

\* f.metadata().unwrap().len() == 0
IsEmpty(f) == BLen(f) = 0

\* `for num in entries`, from the i-th entry on
RECURSIVE ReplayAll(_, _, _)
ReplayAll(entries, i, st) ==
    IF i > Len(entries) \/ st.panic THEN st
    ELSE LET num == entries[i]
         IN  IF IsEmpty(st.disk[num])
             THEN ReplayAll(entries, i + 1,
                      [st EXCEPT !.disk = RemoveFile(@, num)])
             ELSE LET r == ReplayFile(num, 0, st)
                  IN  IF r.panic THEN r
                      ELSE ReplayAll(entries, i + 1,
                               [r EXCEPT !.readers = Register(@, num),
                                         !.vec = Append(@, num)])

\* the generations parsed from the file names, sorted
Entries(d) == Sorted(DOMAIN d)

\* variant: the increment is left out
NextGeneration_reuse(vec) ==
    IF Len(vec) > 0 THEN vec[Len(vec)] ELSE 0

\* maxn: the last element of vec (0 when vec is empty), plus one
NextGeneration(vec) ==
    (IF Len(vec) > 0 THEN vec[Len(vec)] ELSE 0) + 1

(***************************************************************************)
(* get                                                                     *)
(***************************************************************************)
\* the closure of get: read the value of the record that vv names from f
ReadValue(f, vv) ==
    IF ~CanRead(f, vv.pos + 8 + 4, 4) THEN Panic
    ELSE LET vsize == from_le_bytes(Slice(f, vv.pos + 8 + 4, 4), 4)
             ksize == vv.len - 16 - vsize
             \* cursor after read_u32, then seek(SeekFrom::Current(ksize))
             vstart == vv.pos + 8 + 4 + 4 + ksize
         IN  \* f.take(vsize).read_to_string: at most vsize bytes, up to EOF
             OkSome(Slice(f, vstart, vsize))

\* variant: the value is read through the handle of the active segment
GetResult_active(key) ==
    IF key \in DOMAIN indexes
    THEN ReadValue(disk[nth], indexes[key])
    ELSE KeyNotFound

\* what get(key) returns in the current state
GetResult(key) ==
    IF key \in DOMAIN indexes
    THEN LET vv == indexes[key]
         IN  IF vv.n \in readers THEN ReadValue(disk[vv.n], vv) ELSE OkNone
    ELSE KeyNotFound

AllGets == [k \in Keys |-> GetResult(k)]

(***************************************************************************)
(* Initial state: an empty directory, no store                             *)
(***************************************************************************)
Init ==
    /\ disk = [g \in {} |-> <<>>]
    /\ status = "closed"
    /\ nth = 0
    /\ writer = 0
    /\ readers = {}
    /\ indexes = NoIndex
    /\ uncompacted = 0
    /\ last = Call("init", <<>>, <<>>, NoResult, [gets |-> <<>>])
    /\ logical = [k \in Keys |-> NoValue]
    /\ hiGen = 0
    /\ nwrites = 0

\* the process holds no KvStore
NoStore ==
    /\ nth' = 0
    /\ writer' = 0
    /\ readers' = {}
    /\ indexes' = NoIndex
    /\ uncompacted' = 0

(***************************************************************************)
(* Operations                                                              *)
(***************************************************************************)
\* KvStore::open(path)
open ==
    /\ status \in {"closed", "panicked"}
    /\ \E r \in {ReplayAll(Entries(disk), 1, ReplayInit(disk))} :
       LET maxn == NextGeneration(r.vec)
           info == [sup |-> r.sup, skipped |-> r.skipped, prior |-> hiGen,
                    found |-> DOMAIN disk,
                    empty |-> {g \in DOMAIN disk : BLen(disk[g]) = 0},
                    \* how the previous process ended
                    prev |-> IF last.op = "open" THEN last.info.prev ELSE last]
       IN  IF r.panic
           THEN /\ status' = "panicked"
                /\ disk' = r.disk
                /\ NoStore
                /\ last' = Call("open", <<>>, <<>>, Panic, info)
                /\ hiGen' = hiGen
           ELSE /\ status' = "open"
                /\ disk' = open_file(r.disk, maxn)
                /\ nth' = maxn
                /\ writer' = 0
                /\ readers' = Register(r.readers, maxn)
                /\ indexes' = r.indexes
                /\ uncompacted' = r.uncompacted
                /\ last' = Call("open", <<>>, <<>>, OkUnit, info)
                /\ hiGen' = Max({hiGen, maxn})
    /\ UNCHANGED <<logical, nwrites>>

\* KvStore::set(key, value), unix_time() returning unixtime
set(key, value, unixtime) ==
    /\ status = "open"
    /\ nwrites < MaxWrites
    /\ LET curpos == writer
           rec == CatFirst(Pieces(unixtime, key, value), 5)
           appended == [disk EXCEPT ![nth] = WriteAt(@, curpos, rec)]
           len == RecordLen(key, value)
           had == key \in DOMAIN indexes
           v == indexes[key]
       IN  /\ writer' = curpos + BLen(rec)
           /\ indexes' = Insert(indexes, key,
                                DataIndex(nth, curpos, len, unixtime))
           /\ uncompacted' = IF had THEN uncompacted + v.len ELSE uncompacted
           /\ disk' = IF had /\ v.n \in readers
                      THEN [appended EXCEPT ![v.n] = remove_item(@, v.pos)]
                      ELSE appended
           /\ last' = Call("set", key, value, OkUnit,
                           [had |-> had,
                            old |-> IF had THEN v ELSE DataIndex(0, 0, 0, 0),
                            unc0 |-> uncompacted,
                            was |-> logical[key]])
    /\ logical' = [logical EXCEPT ![key] = Live(value)]
    /\ nwrites' = nwrites + 1
    /\ UNCHANGED <<status, nth, readers, hiGen>>

\* KvStore::get(key)
get(key) ==
    /\ status = "open"
    /\ last' = Call("get", key, <<>>, GetResult(key),
                    [after |-> IF last.op = "set"
                               THEN <<last.key, last.val>> ELSE <<>>])
    /\ UNCHANGED <<disk, status, store, logical, hiGen, nwrites>>

\* KvStore::remove(key)
remove(key) ==
    /\ status = "open"
    /\ IF key \in DOMAIN indexes
       THEN LET v == indexes[key]
            IN  /\ indexes' = Delete(indexes, key)
                /\ uncompacted' = uncompacted + v.len
                /\ disk' = [disk EXCEPT ![v.n] = remove_item(@, v.pos)]
                /\ last' = Call("remove", key, <<>>, OkUnit,
                                [had |-> TRUE, old |-> v,
                                 unc0 |-> uncompacted])
       ELSE /\ UNCHANGED <<indexes, uncompacted, disk>>
            /\ last' = Call("remove", key, <<>>, KeyNotFound,
                            [had |-> FALSE, old |-> DataIndex(0, 0, 0, 0),
                             unc0 |-> uncompacted])
    /\ logical' = [logical EXCEPT ![key] = NoValue]
    /\ UNCHANGED <<status, nth, writer, readers, hiGen, nwrites>>

\* the KvStore is dropped, or the process ends, between two calls
drop ==
    /\ status = "open"
    /\ status' = "closed"
    /\ NoStore
    /\ last' = Call("drop", <<>>, <<>>, NoResult,
                    [gets |-> AllGets, unc |-> uncompacted])
    /\ UNCHANGED <<disk, logical, hiGen, nwrites>>

\* the process dies inside set(key, value) after m of its five write_all
\* calls; after the fifth, before the old record is marked deleted
crash_in_set(key, value, unixtime, m) ==
    /\ status = "open"
    /\ nwrites < MaxWrites
    /\ disk' = [disk EXCEPT ![nth] =
                   WriteAt(@, writer, CatFirst(Pieces(unixtime, key, value), m))]
    /\ status' = "closed"
    /\ NoStore
    \* the value reaches the disk from the third write_all on
    /\ last' = Call("crash", key, IF m >= 3 THEN value ELSE <<>>, NoResult,
                    [m |-> m, gets |-> AllGets, was |-> logical[key]])
    \* the key reaches the disk with the fourth write_all
    /\ logical' = IF m >= 4 THEN [logical EXCEPT ![key] = Torn] ELSE logical
    /\ nwrites' = nwrites + 1
    /\ UNCHANGED hiGen

\* unix_time(): the wall clock in seconds, one second further at every set;
\* never 0, and the low byte of the second value is 0
unix_time == 1699999999 + nwrites

Next ==
    \/ open
    \/ \E k \in Keys, v \in Values : set(k, v, unix_time)
    \/ \E k \in Keys : get(k)
    \/ \E k \in Keys : remove(k)
    \/ drop
    \/ \E k \in Keys, v \in Values, m \in 1..5 :
           crash_in_set(k, v, unix_time, m)

Spec == Init /\ [][Next]_vars

(***************************************************************************)
(* Reading the directory as the claims speak of it                         *)
(***************************************************************************)
\* the timestamp field of the record at pos of segment n
TimestampAt(n, pos) == from_le_bytes(Slice(disk[n], pos, 8), 8)

\* in the directory d the record that the entry e names exists and is
\* marked deleted
DeadIn(d, e) ==
    /\ e.n \in DOMAIN d
    /\ CanRead(d[e.n], e.pos, 8)
    /\ from_le_bytes(Slice(d[e.n], e.pos, 8), 8) = 0

Dead(e) == DeadIn(disk, e)

\* the offset of the first record of f, from pos on, that is cut short:
\* its header has fewer than 16 bytes or its key or value passes the end
\* of the file; -1 when every record is whole
RECURSIVE TruncatedAt(_, _)
TruncatedAt(f, pos) ==
    IF pos >= BLen(f) THEN -1
    ELSE IF ~CanRead(f, pos, HeaderLen) THEN pos
    ELSE LET ksize == from_le_bytes(Slice(f, pos + 8, 4), 4)
             vsize == from_le_bytes(Slice(f, pos + 12, 4), 4)
         IN  IF ~CanRead(f, pos + HeaderLen, ksize + vsize) THEN pos
             ELSE TruncatedAt(f, pos + HeaderLen + ksize + vsize)

\* the whole records of segment n from pos on, as [key, data]
RECURSIVE WholeRecords(_, _)
WholeRecords(n, pos) ==
    LET f == disk[n]
    IN  IF pos >= BLen(f) \/ TruncatedAt(f, pos) = pos THEN {}
        ELSE LET ksize == from_le_bytes(Slice(f, pos + 8, 4), 4)
                 vsize == from_le_bytes(Slice(f, pos + 12, 4), 4)
                 len == HeaderLen + ksize + vsize
             IN  {[key |-> Slice(f, pos + HeaderLen, ksize),
                   data |-> DataIndex(n, pos, len, TimestampAt(n, pos))]}
                 \cup WholeRecords(n, pos + len)

AllWholeRecords == UNION { WholeRecords(n, 0) : n \in DOMAIN disk }

(***************************************************************************)
(* C1  Round-trip: in any open store, set(k, v) immediately followed by    *)
(* get(k) returns exactly v, the empty value included.                     *)
(***************************************************************************)
C1_RoundTrip ==
    (last.op = "get" /\ last.info.after # <<>> /\ last.info.after[1] = last.key)
        => last.ret = OkSome(last.info.after[2])

\* get(k) right after set(k, "") on a key that an earlier record holds
C1_Witness ==
    /\ last.op = "get"
    /\ last.info.after = <<last.key, EmptyStr>>
    /\ last.ret = OkSome(EmptyStr)
    /\ uncompacted > 0

(***************************************************************************)
(* C2  Recovery idempotence: when a store is dropped between two calls     *)
(* and the directory is opened again, open succeeds and get returns for    *)
(* every key what it returned before the drop: the same value for a live   *)
(* key, KeyNotFound for a removed or never-set key.                        *)
(***************************************************************************)
C2_RecoveryIdempotent ==
    (last.op = "open" /\ last.info.prev.op = "drop")
        => /\ status = "open"
           /\ AllGets = last.info.prev.info.gets

\* reopened with one key live and one key removed (its record read dead)
C2_Witness ==
    /\ last.op = "open"
    /\ last.info.prev.op = "drop"
    /\ status = "open"
    /\ last.info.skipped > 0
    /\ \E k \in Keys : logical[k].st = "Live" /\ GetResult(k) = OkSome(logical[k].v)
    /\ \E k \in Keys : logical[k].st = "NoValue" /\ GetResult(k) = KeyNotFound

(***************************************************************************)
(* C3  Overwrite: after set(k, v2) on a key that has an index entry, get   *)
(* returns v2, uncompacted has grown by exactly the length of the old      *)
(* record (16 + |k| + |v1| when a completed set wrote v1) and the old      *)
(* record is marked dead in its own segment, active or older; a set on a   *)
(* key with no index entry leaves uncompacted unchanged.                   *)
(***************************************************************************)
C3_Overwrite ==
    last.op = "set" =>
        /\ GetResult(last.key) = OkSome(last.val)
        /\ IF last.info.had
           THEN /\ uncompacted = last.info.unc0 + last.info.old.len
                /\ Dead(last.info.old)
                /\ last.info.was.st = "Live" =>
                       last.info.old.len
                           = 16 + BLen(last.key) + BLen(last.info.was.v)
           ELSE uncompacted = last.info.unc0

\* an overwrite whose old record lies in an older segment
C3_Witness ==
    /\ last.op = "set"
    /\ last.info.had
    /\ last.info.was.st = "Live"
    /\ last.info.old.n < nth
    /\ uncompacted > 16

(***************************************************************************)
(* C4  remove(k) on a key with no index entry fails with KeyNotFound and   *)
(* leaves the index, uncompacted and the files unchanged; remove(k) on a   *)
(* present key succeeds, deletes the index entry, marks its record dead    *)
(* and adds its length to uncompacted, so a second remove(k) fails.        *)
(***************************************************************************)
C4_RemoveStep ==
    IF last'.key \in DOMAIN indexes
    THEN /\ last'.ret = OkUnit
         /\ DOMAIN indexes' = DOMAIN indexes \ {last'.key}
         /\ \A k \in DOMAIN indexes' : indexes'[k] = indexes[k]
         /\ DeadIn(disk', indexes[last'.key])
         /\ uncompacted' = uncompacted + indexes[last'.key].len
    ELSE /\ last'.ret = KeyNotFound
         /\ UNCHANGED <<indexes, uncompacted, disk>>

C4_Remove ==
    [][last'.op = "remove" => C4_RemoveStep]_vars

\* a remove of a key that an earlier remove took out: it is not in the
\* index and its only record on disk is dead
C4_Witness ==
    /\ last.op = "remove"
    /\ last.ret = KeyNotFound
    /\ \E r \in AllWholeRecords : r.key = last.key
    /\ \A r \in AllWholeRecords : r.key = last.key => r.data.timestamp = 0
    /\ nwrites = 1

(***************************************************************************)
(* C5  get(k) fails with KeyNotFound exactly when k has no live value      *)
(* (never set, or removed last); otherwise it returns a value, never None  *)
(* and never KeyNotFound.  A key whose set was interrupted by a crash has  *)
(* no determined value until the next completed set or remove, unless the  *)
(* crash came before any byte of the key was written.                      *)
(***************************************************************************)
C5_KeyNotFoundIff ==
    status = "open" =>
        \A k \in Keys :
            /\ logical[k].st = "NoValue" => GetResult(k) = KeyNotFound
            /\ logical[k].st = "Live" => GetResult(k).kind = "Some"
            /\ (last.op = "get" /\ last.key = k) => last.ret = GetResult(k)

\* get of a removed key fails while the other key is live
C5_Witness ==
    /\ last.op = "get"
    /\ last.ret = KeyNotFound
    /\ uncompacted > 0
    /\ \E k \in Keys : logical[k].st = "Live"

(***************************************************************************)
(* C6  Compaction trigger: a set or remove that raises uncompacted above   *)
(* COMPACTION_THRESHOLD compacts before it returns, so uncompacted is 0    *)
(* on return and never exceeds the threshold after a mutating call.        *)
(* The source has no compaction: set and remove only add to uncompacted.   *)
(***************************************************************************)
Mutating == status = "open" /\ last.op \in {"set", "remove"}

\* the call found uncompacted at or below the threshold and pushed it above
CrossedThreshold ==
    /\ Mutating
    /\ last.info.had
    /\ last.info.unc0 <= COMPACTION_THRESHOLD
    /\ last.info.unc0 + last.info.old.len > COMPACTION_THRESHOLD

C6_CompactionTrigger ==
    /\ Mutating => uncompacted <= COMPACTION_THRESHOLD
    /\ CrossedThreshold => uncompacted = 0

(***************************************************************************)
(* C7  Compaction transparency: once the call that pushed uncompacted      *)
(* past the threshold has returned, every live key still reads its value   *)
(* and no dead (zero-timestamp) record remains in any segment.             *)
(***************************************************************************)
NoDeadRecord == \A r \in AllWholeRecords : r.data.timestamp # 0

LiveKeysReadBack ==
    \A k \in Keys : logical[k].st = "Live" => GetResult(k) = OkSome(logical[k].v)

C7_CompactionTransparent ==
    CrossedThreshold => (LiveKeysReadBack /\ NoDeadRecord)

(***************************************************************************)
(* C8  Truncated-record recovery: when the last record of a segment is     *)
(* cut short (header under 16 bytes, or key or value past the end of the   *)
(* file), open does not fail, replay of the segment stops there, the cut   *)
(* record enters the index nowhere and displaces nothing, the records      *)
(* before it stay valid and later segments are replayed.                   *)
(***************************************************************************)
\* the entry e names the cut record of its segment
IsCut(e) ==
    /\ e.n \in DOMAIN disk
    /\ TruncatedAt(disk[e.n], 0) = e.pos

SomeSegmentCut == \E n \in DOMAIN disk : TruncatedAt(disk[n], 0) >= 0

\* every whole record that is not marked deleted is the index entry of its
\* key
WholeLiveRecordsIndexed ==
    \A r \in AllWholeRecords :
        r.data.timestamp # 0 =>
            (r.key \in DOMAIN indexes /\ indexes[r.key] = r.data)

C8_TruncatedRecovery ==
    (last.op = "open" /\ SomeSegmentCut) =>
        /\ status = "open"
        /\ \A k \in DOMAIN indexes : ~IsCut(indexes[k])
        /\ \A x \in last.info.sup : ~IsCut(x.new)
        /\ WholeLiveRecordsIndexed

(***************************************************************************)
(* C9  Replay last-writer-wins: when open replays a live record whose key  *)
(* already has an index entry from an earlier record, of the same or of    *)
(* an earlier segment, open completes with the index at the later record,  *)
(* the earlier record marked dead and its length added to uncompacted.     *)
(***************************************************************************)
Later(a, b) == a.n > b.n \/ (a.n = b.n /\ a.pos > b.pos)

RECURSIVE SumLen(_)
SumLen(S) ==
    IF S = {} THEN 0
    ELSE LET x == CHOOSE y \in S : TRUE IN x.old.len + SumLen(S \ {x})

C9_ReplayLastWriterWins ==
    (last.op = "open" /\ last.info.sup # {}) =>
        /\ status = "open"
        /\ \A x \in last.info.sup :
               /\ x.key \in DOMAIN indexes
               /\ Later(indexes[x.key], x.old)
               /\ Dead(x.old)
        /\ uncompacted = last.info.skipped + SumLen(last.info.sup)

(***************************************************************************)
(* C10  Generation monotonicity, as claimed: every open creates the        *)
(* active segment with generation = (max generation of the segment files   *)
(* in the directory) + 1, strictly greater than every generation assigned  *)
(* before, also when the previous run wrote nothing.                       *)
(***************************************************************************)
Opened == last.op = "open" /\ status = "open"

C10_AsClaimed ==
    Opened =>
        /\ nth = Max(last.info.found) + 1
        /\ nth > last.info.prior

(***************************************************************************)
(* C10 amended: every open creates the active segment with generation =    *)
(* (max generation of the non-empty segment files, 0 when there is none)   *)
(* + 1: strictly greater than the generation of every other file left in   *)
(* the directory, never smaller than a generation assigned before, and     *)
(* equal to the previous active generation exactly when that segment was   *)
(* still empty (the previous run wrote nothing).                           *)
(***************************************************************************)
\* the files found at open that held bytes: all that open left but its own
Kept == DOMAIN disk \ {nth}

C10_GenerationMonotone ==
    Opened =>
        /\ nth = Max(Kept) + 1
        /\ \A g \in Kept : g < nth /\ BLen(disk[g]) > 0
        /\ BLen(disk[nth]) = 0
        /\ nth >= last.info.prior
        /\ last.info.prior > 0 =>
               (nth = last.info.prior <=> last.info.prior \notin Kept)

\* an open after a run that wrote nothing, beside an older non-empty segment
C10_Witness ==
    /\ Opened
    /\ last.info.prior > 0
    /\ nth = last.info.prior
    /\ Kept # {}

(***************************************************************************)
(* C11  Index invariant: in an open store (after open and after every set  *)
(* or remove) the index holds an entry for exactly the live keys, and      *)
(* each entry names a record that exists whole in a segment with an open   *)
(* handle, carries that key, has the entry's non-zero timestamp and is     *)
(* the latest record of the key in all segments; no entry names a zeroed   *)
(* record.                                                                 *)
(***************************************************************************)
\* the entry e of key k names a whole record of k with e's length and
\* timestamp
NamesRecord(k, e) == [key |-> k, data |-> e] \in AllWholeRecords

LatestOf(k, e) ==
    \A r \in AllWholeRecords : r.key = k => ~Later(r.data, e)

C11_IndexInvariant ==
    status = "open" =>
        /\ \A k \in Keys :
               /\ logical[k].st = "Live" => k \in DOMAIN indexes
               /\ logical[k].st = "NoValue" => k \notin DOMAIN indexes
        /\ \A k \in DOMAIN indexes :
               /\ indexes[k].n \in readers \cap DOMAIN disk
               /\ NamesRecord(k, indexes[k])
               /\ indexes[k].timestamp # 0
               /\ ~Dead(indexes[k])
               /\ LatestOf(k, indexes[k])

(***************************************************************************)
(* C12  Dead-byte accounting: in an open store uncompacted equals the sum  *)
(* of the lengths of all zero-timestamp records in the segments, each      *)
(* superseded or removed record counted once; and an open after a drop     *)
(* computes the value the store held when it was dropped.                  *)
(***************************************************************************)
RECURSIVE SumDataLen(_)
SumDataLen(S) ==
    IF S = {} THEN 0
    ELSE LET x == CHOOSE y \in S : TRUE IN x.data.len + SumDataLen(S \ {x})

DeadBytes == SumDataLen({r \in AllWholeRecords : r.data.timestamp = 0})

C12_DeadByteAccounting ==
    status = "open" =>
        /\ uncompacted = DeadBytes
        /\ (last.op = "open" /\ last.info.prev.op = "drop")
               => uncompacted = last.info.prev.info.unc

(***************************************************************************)
(* C13  Active-segment-only append: set writes its record at the end of    *)
(* the active segment, which has the highest generation, and the index     *)
(* entry's offset is where the record starts; no step changes the length   *)
(* of another segment or of the bytes already written: the only change     *)
(* to them is the zeroing of the 8-byte timestamp of records they hold,    *)
(* and remove appends nothing.                                             *)
(***************************************************************************)
\* the offsets at which the records of f start, read as open reads them
RECURSIVE Starts(_, _)
Starts(f, pos) ==
    LET item == read_item(0, f, pos)
    IN  IF item.err THEN {} ELSE {pos} \cup Starts(f, item.next)

RECURSIVE ZeroAll(_, _)
ZeroAll(f, S) ==
    IF S = {} THEN f
    ELSE LET p == CHOOSE x \in S : TRUE
         IN  ZeroAll(Cat(Cat(Take(f, p), Rep(0, 8)), Drop(f, p + 8)), S \ {p})

\* g is f with the timestamps of some of its records zeroed, nothing else
Unappended(f, g) ==
    \/ g = f
    \/ /\ BLen(g) = BLen(f)
       /\ \E S \in SUBSET Starts(f, 0) : g = ZeroAll(f, S)

C13_SetStep ==
    LET e == indexes'[last'.key]
        end == BLen(disk[nth])
        rec == CatFirst(Pieces(e.timestamp, last'.key, last'.val), 5)
    IN  /\ nth = Max(DOMAIN disk)
        /\ e.n = nth
        /\ e.pos = end
        /\ DOMAIN disk' = DOMAIN disk
        /\ BLen(disk'[nth]) = end + BLen(rec)
        /\ Drop(disk'[nth], end) = rec
        /\ Unappended(disk[nth], Take(disk'[nth], end))
        /\ \A g \in DOMAIN disk \ {nth} : Unappended(disk[g], disk'[g])

C13_Step ==
    /\ last'.op = "set" => C13_SetStep
    /\ last'.op = "remove" =>
           /\ DOMAIN disk' = DOMAIN disk
           /\ \A g \in DOMAIN disk : Unappended(disk[g], disk'[g])
    /\ last'.op \in {"get", "drop"} => disk' = disk
    /\ last'.op = "open" =>
           \A g \in DOMAIN disk :
               BLen(disk[g]) > 0 =>
                   /\ g \in DOMAIN disk'
                   /\ Unappended(disk[g], disk'[g])
                   /\ status' = "open" => g < nth'
    /\ last'.op = "crash" =>
           /\ DOMAIN disk' = DOMAIN disk
           /\ \A g \in DOMAIN disk \ {nth} : disk'[g] = disk[g]
           /\ Take(disk'[nth], BLen(disk[nth])) = disk[nth]

C13_ActiveOnlyAppend == [][C13_Step]_vars

\* a set that appended behind an earlier record of the active segment and
\* zeroed that record
C13_Witness ==
    /\ last.op = "set"
    /\ last.info.had
    /\ last.info.old.n = nth
    /\ indexes[last.key].pos = last.info.old.len
    /\ BLen(disk[nth]) = last.info.old.len + indexes[last.key].len

(***************************************************************************)
(* C14  get is read-only and local: a get(k), hit or miss, leaves the      *)
(* index, uncompacted, the active generation, the handles and every byte   *)
(* of every segment unchanged; a hit returns the value bytes of the        *)
(* record that k's index entry names, read from that entry's segment, a    *)
(* miss returns KeyNotFound; after it the writer still stands at the end   *)
(* of the active segment and a repeated get returns the same result.       *)
(***************************************************************************)
\* the bytes behind the header and the key of the record that e names
ValueBytes(k, e) ==
    Slice(disk[e.n], e.pos + HeaderLen + BLen(k), e.len - HeaderLen - BLen(k))

C14_GetStep ==
    /\ UNCHANGED <<disk, status, nth, writer, readers, indexes, uncompacted>>
    /\ IF last'.key \in DOMAIN indexes
       THEN last'.ret = OkSome(ValueBytes(last'.key, indexes[last'.key]))
       ELSE last'.ret = KeyNotFound
    /\ writer' = BLen(disk'[nth'])
    /\ (last.op = "get" /\ last.key = last'.key) => last'.ret = last.ret

C14_GetReadOnly == [][last'.op = "get" => C14_GetStep]_vars

\* a hit on a record of an older segment while the active segment holds a
\* record of the other key
C14_Witness ==
    /\ last.op = "get"
    /\ last.ret.kind = "Some"
    /\ indexes[last.key].n < nth
    /\ \E k \in DOMAIN indexes : indexes[k].n = nth
    /\ writer = BLen(disk[nth])

(***************************************************************************)
(* C15  Empty-segment cleanup: a segment file that open finds with zero    *)
(* length is deleted and gets no handle as a replayed segment, so when     *)
(* open has returned the only zero-length file of the directory is the     *)
(* active segment open has just created, every file has a handle and       *)
(* every handle a file, and every index entry names a non-empty file of    *)
(* the directory.                                                          *)
(***************************************************************************)
C15_EmptySegmentCleanup ==
    Opened =>
        /\ \A g \in last.info.empty :
               g = nth \/ (g \notin DOMAIN disk /\ g \notin readers)
        /\ \A g \in DOMAIN disk : BLen(disk[g]) = 0 <=> g = nth
        /\ DOMAIN disk \subseteq last.info.found \cup {nth}
        /\ readers = DOMAIN disk
        /\ \A k \in DOMAIN indexes :
               /\ indexes[k].n \in DOMAIN disk
               /\ BLen(disk[indexes[k].n]) > 0

\* an open that found the previous active segment empty, beside a segment
\* that holds a live and a dead record
C15_Witness ==
    /\ Opened
    /\ last.info.empty # {}
    /\ DOMAIN indexes # {}
    /\ uncompacted > 0

(***************************************************************************)
(* C16  Crash atomicity of set: when the process dies inside set(k, v2)    *)
(* on a key whose live value is v1, at any of the points between its       *)
(* writes, the next open succeeds, get(k) returns v1 or v2, and the get    *)
(* of every other key returns what it returned before the crash.           *)
(***************************************************************************)
\* the open follows a crash inside set on a key that had a live value
AfterCrashOnLive ==
    /\ last.op = "open"
    /\ last.info.prev.op = "crash"
    /\ last.info.prev.info.was.st = "Live"

\* the values set was called with: known from the third write on
NewValues(c) == IF c.info.m >= 3 THEN {c.val} ELSE Values

C16_CrashAtomicity ==
    AfterCrashOnLive =>
        LET c == last.info.prev
        IN  /\ status = "open"
            /\ GetResult(c.key) \in
                   {OkSome(v) : v \in {c.info.was.v} \cup NewValues(c)}
            /\ \A k \in Keys \ {c.key} : GetResult(k) = c.info.gets[k]

(***************************************************************************)
(* C17  Disk/index agreement: in an open store (after open and after       *)
(* every completed set or remove) each key has at most one record with a   *)
(* non-zero timestamp in all segments; it has one exactly when it has an   *)
(* index entry, and the entry names exactly that record; every other       *)
(* record of the key has a zero timestamp.                                 *)
(***************************************************************************)
\* the records of key k on disk that are not marked deleted
LiveRecords(k) ==
    {r \in AllWholeRecords : r.key = k /\ r.data.timestamp # 0}

C17_DiskIndexAgreement ==
    status = "open" =>
        \A k \in Keys :
            /\ Cardinality(LiveRecords(k)) <= 1
            /\ LiveRecords(k) # {} <=> k \in DOMAIN indexes
            /\ k \in DOMAIN indexes =>
                   LiveRecords(k) = {[key |-> k, data |-> indexes[k]]}

(***************************************************************************)
(* C18  Key isolation: set(k, v) and remove(k) change the index entry,     *)
(* the live record and the get result of k only: every other key keeps     *)
(* its index entry, the bytes of the record the entry names and the        *)
(* result of its get, also when the record that the call zeroes lies in    *)
(* the same segment as the other key's record.                             *)
(***************************************************************************)
\* the bytes of the record that e names, in the directory d
RecordBytes(d, e) == Slice(d[e.n], e.pos, e.len)

\* what a get of k reads with the index idx from the directory d
GetIn(d, idx, k) ==
    IF k \in DOMAIN idx
    THEN OkSome(Slice(d[idx[k].n], idx[k].pos + HeaderLen + BLen(k),
                      idx[k].len - HeaderLen - BLen(k)))
    ELSE KeyNotFound

C18_Step ==
    \A o \in Keys \ {last'.key} :
        /\ o \in DOMAIN indexes' <=> o \in DOMAIN indexes
        /\ o \in DOMAIN indexes =>
               /\ indexes'[o] = indexes[o]
               /\ RecordBytes(disk', indexes[o]) = RecordBytes(disk, indexes[o])
        /\ GetIn(disk', indexes', o) = GetResult(o)

====
